---------------------------- MODULE Spec2Model ----------------------------
(***************************************************************************)
(* Product web API: controller / service / data-access layers over an ORM  *)
(* backed product table.                                                    *)
(*                                                                          *)
(* Representation.  A JavaScript value is a record tagged by t:             *)
(*   [t |-> "undefined"], [t |-> "null"], [t |-> "NaN"],                    *)
(*   [t |-> "number", c |-> hundredths]   (the number c / 100),             *)
(*   [t |-> "string", s |-> sequence of one-character strings],             *)
(*   [t |-> "text", v |-> "..."]          (a string literal of the code),   *)
(*   [t |-> "object", ...six product fields...] (an absent field reads      *)
(*                                         as undefined, as in JavaScript), *)
(*   [t |-> "row", v |-> row], [t |-> "rows", v |-> set of rows].            *)
(* Row ids and validated ids are plain naturals.                            *)
(***************************************************************************)
EXTENDS Integers, Sequences, FiniteSets, TLC

\* ------------------------------------------------------------- bounds
\* Requests accepted over a run.
MaxRequests == 3
\* Largest id the storage sequence hands out (one seed row holds id 1).
MaxId == 2

Slots == {"a", "b"}

\* ------------------------------------------------------- JavaScript values
Undefined == [t |-> "undefined"]
Null == [t |-> "null"]
NaN == [t |-> "NaN"]
Num(c) == [t |-> "number", c |-> c]
Str(s) == [t |-> "string", s |-> s]
Text(v) == [t |-> "text", v |-> v]

DigitChars == <<"0", "1", "2", "3", "4", "5", "6", "7", "8", "9">>
IsDigit(ch) == \E i \in 1..10 : DigitChars[i] = ch
DigitVal(ch) == (CHOOSE i \in 1..10 : DigitChars[i] = ch) - 1
AllDigits(s) == \A i \in 1..Len(s) : IsDigit(s[i])

RECURSIVE DigitsValue(_)
DigitsValue(s) ==
    IF s = <<>> THEN 0
    ELSE 10 * DigitsValue(SubSeq(s, 1, Len(s) - 1)) + DigitVal(s[Len(s)])

RECURSIVE NatToDigits(_)
NatToDigits(n) ==
    IF n < 10 THEN <<DigitChars[n + 1]>>
    ELSE NatToDigits(n \div 10) \o <<DigitChars[(n % 10) + 1]>>

\* value + '' : JavaScript's string conversion of a primitive.
ToStr(v) ==
    CASE v.t = "string" -> v.s
      [] v.t = "undefined" -> <<"u", "n", "d", "e", "f", "i", "n", "e", "d">>
      [] v.t = "null" -> <<"n", "u", "l", "l">>
      [] v.t = "NaN" -> <<"N", "a", "N">>
      [] v.t = "number" ->
            LET a == IF v.c < 0 THEN 0 - v.c ELSE v.c
                whole == NatToDigits(a \div 100)
                frac == a % 100
                fracs == IF frac = 0 THEN <<>>
                         ELSE IF frac % 10 = 0 THEN <<".", DigitChars[(frac \div 10) + 1]>>
                         ELSE <<".", DigitChars[(frac \div 10) + 1], DigitChars[(frac % 10) + 1]>>
            IN (IF v.c < 0 THEN <<"-">> ELSE <<>>) \o whole \o fracs

\* Number(value).  A string converts when it is [sign] digits [. digits] or
\* [sign] . digits, with at most two fraction digits (hundredths are the
\* representation's precision; the validated fields never carry more); the
\* empty string is 0 and every other string is NaN.
StringToNumber(s) ==
    LET signed == Len(s) > 0 /\ s[1] \in {"-", "+"}
        body == IF signed THEN SubSeq(s, 2, Len(s)) ELSE s
        dots == {i \in 1..Len(body) : body[i] = "."}
        dot == IF dots = {} THEN Len(body) + 1 ELSE CHOOSE i \in dots : \A j \in dots : i <= j
        whole == SubSeq(body, 1, dot - 1)
        frac == SubSeq(body, dot + 1, Len(body))
        frac2 == IF Len(frac) = 0 THEN 0
                 ELSE IF Len(frac) = 1 THEN 10 * DigitVal(frac[1])
                 ELSE DigitsValue(frac)
        ok == /\ AllDigits(whole) /\ AllDigits(frac)
              /\ Len(whole) + Len(frac) > 0
              /\ Len(frac) <= 2
        mag == 100 * DigitsValue(whole) + frac2
    IN IF s = <<>> THEN Num(0)
       ELSE IF ~ok THEN NaN
       ELSE IF signed /\ s[1] = "-" THEN Num(0 - mag) ELSE Num(mag)

Number(v) ==
    CASE v.t = "number" -> v
      [] v.t = "NaN" -> NaN
      [] v.t = "undefined" -> NaN
      [] v.t = "null" -> Num(0)
      [] v.t = "string" -> StringToNumber(v.s)

\* JavaScript truthiness of a validator result (an object or undefined).
Truthy(v) == v.t \notin {"undefined", "null", "NaN"}

\* ------------------------------------------------ validators/baseValidators
\* validateId(id): the normalized positive integer of a clean positive
\* integer string, and otherwise a falsy value (0 here; the service reads
\* only its truthiness).
validateId(id) ==
    LET s == ToStr(id)
    IN IF s # <<>> /\ AllDigits(s) /\ DigitsValue(s) > 0 THEN DigitsValue(s) ELSE 0

\* ------------------------------------------------------ the validator package
\* Every validator function first asserts that its argument is a string and
\* throws a TypeError otherwise.
assertString(v) == v.t = "string"

\* validator.isNumeric(str, { no_symbols: true }) : /^[0-9]+$/
isNumeric(s) == s # <<>> /\ AllDigits(s)

\* validator.isEmpty(str) : str.length === 0
isEmpty(s) == Len(s) = 0

\* (,\d{3})*
RECURSIVE IsGroups(_)
IsGroups(w) ==
    \/ w = <<>>
    \/ /\ Len(w) >= 4
       /\ w[1] = ","
       /\ AllDigits(SubSeq(w, 2, 4))
       /\ IsGroups(SubSeq(w, 5, Len(w)))

\* (0|[1-9]\d*|[1-9]\d{0,2}(,\d{3})*)?
IsWholeAmount(w) ==
    \/ w = <<>>
    \/ w = <<"0">>
    \/ /\ Len(w) >= 1 /\ AllDigits(w) /\ w[1] # "0"
    \/ \E k \in 1..3 :
          /\ Len(w) >= k
          /\ AllDigits(SubSeq(w, 1, k))
          /\ w[1] # "0"
          /\ IsGroups(SubSeq(w, k + 1, Len(w)))

\* validator.isCurrency(str, { allow_negatives: false }) with the package's
\* other defaults: ^(?!-? )(?=.*\d)(\$)?WHOLE(\.\d{2})?$
isCurrency(s) ==
    LET rest == IF Len(s) > 0 /\ s[1] = "$" THEN SubSeq(s, 2, Len(s)) ELSE s
        hasDec == Len(rest) >= 3 /\ rest[Len(rest) - 2] = "."
        whole == IF hasDec THEN SubSeq(rest, 1, Len(rest) - 3) ELSE rest
        dec == IF hasDec THEN SubSeq(rest, Len(rest) - 1, Len(rest)) ELSE <<>>
    IN /\ \E i \in 1..Len(s) : IsDigit(s[i])
       /\ IsWholeAmount(whole)
       /\ AllDigits(dec)

\* validator.escape(str): the fixed character-entity table.  The table's
\* last entry (the grave accent, to &#96;) is left out: no input of the model
\* holds that character.
EscapeChar(ch) ==
    CASE ch = "&" -> <<"&", "a", "m", "p", ";">>
      [] ch = "\"" -> <<"&", "q", "u", "o", "t", ";">>
      [] ch = "'" -> <<"&", "#", "x", "2", "7", ";">>
      [] ch = "<" -> <<"&", "l", "t", ";">>
      [] ch = ">" -> <<"&", "g", "t", ";">>
      [] ch = "/" -> <<"&", "#", "x", "2", "F", ";">>
      [] ch = "\\" -> <<"&", "#", "x", "5", "C", ";">>
      [] OTHER -> <<ch>>

RECURSIVE escape(_)
escape(s) == IF s = <<>> THEN <<>> ELSE EscapeChar(Head(s)) \o escape(Tail(s))

\* -------------------------------------------------------- models/product.js
\* function Product(id = 'undefined', cat = 'undefined', name, desc, stock, price)
Product(id, cat, name, desc, stock, price) ==
    LET dflt(v) == IF v.t = "undefined" THEN Str(<<"u", "n", "d", "e", "f", "i", "n", "e", "d">>) ELSE v
    IN [t |-> "object",
        id |-> Number(dflt(id)),
        category_id |-> Number(dflt(cat)),
        product_name |-> name,
        product_description |-> desc,
        product_stock |-> Number(stock),
        product_price |-> Number(price)]

\* ------------------------------------------- validators/productValidator.js
Returned(v) == [threw |-> "", value |-> v]
Threw(msg) == [threw |-> msg, value |-> Undefined]

PropertyOfNullish == "TypeError: Cannot read properties of null or undefined"
ExpectedAString == "TypeError: Expected a string but received another type"

\* Variant of validateNewProduct that leaves out the product_stock operand.
validateNewProduct_noStockCheck(formProduct) ==
    IF formProduct.t \in {"null", "undefined"} THEN Threw(PropertyOfNullish)
    ELSE IF ~isNumeric(ToStr(formProduct.category_id)) THEN Returned(Undefined)
    ELSE IF ~assertString(formProduct.product_name) THEN Threw(ExpectedAString)
    ELSE IF isEmpty(formProduct.product_name.s) THEN Returned(Undefined)
    ELSE IF ~assertString(formProduct.product_description) THEN Threw(ExpectedAString)
    ELSE IF isEmpty(formProduct.product_description.s) THEN Returned(Undefined)
    ELSE IF ~isCurrency(ToStr(formProduct.product_price)) THEN Returned(Undefined)
    ELSE Returned(Product(Num(0),
                          formProduct.category_id,
                          Str(escape(formProduct.product_name.s)),
                          Str(escape(formProduct.product_description.s)),
                          formProduct.product_stock,
                          formProduct.product_price))

\* validateNewProduct(formProduct).  The && chain is evaluated left to right
\* and stops at the first false operand; an operand that throws ends the call.
validateNewProduct(formProduct) ==
    IF formProduct.t \in {"null", "undefined"} THEN Threw(PropertyOfNullish)
    ELSE IF ~isNumeric(ToStr(formProduct.category_id)) THEN Returned(Undefined)
    ELSE IF ~assertString(formProduct.product_name) THEN Threw(ExpectedAString)
    ELSE IF isEmpty(formProduct.product_name.s) THEN Returned(Undefined)
    ELSE IF ~assertString(formProduct.product_description) THEN Threw(ExpectedAString)
    ELSE IF isEmpty(formProduct.product_description.s) THEN Returned(Undefined)
    ELSE IF ~isNumeric(ToStr(formProduct.product_stock)) THEN Returned(Undefined)
    ELSE IF ~isCurrency(ToStr(formProduct.product_price)) THEN Returned(Undefined)
    ELSE Returned(Product(Num(0),
                          formProduct.category_id,
                          Str(escape(formProduct.product_name.s)),
                          Str(escape(formProduct.product_description.s)),
                          formProduct.product_stock,
                          formProduct.product_price))

\* ------------------------------------------------------------------ state
\* store   : the rows of the product table
\* lastId  : the table's auto-increment sequence
\* req     : per slot, the request being served there (its handler's locals,
\*           its response object and where the handler stands)
\* served  : requests accepted so far
VARIABLES store, lastId, req, served

vars == <<store, lastId, req, served>>

\* ----------------------------------------------------------------- inputs
RawIds ==
    { Str(<<"1">>), Str(<<"2">>), Str(<<"0">>), Str(<<"a", "b", "c">>),
      Str(<<"-", "1">>), Str(<<"1", ".", "5">>) }

BasePayload ==
    [t |-> "object",
     id |-> Undefined,
     category_id |-> Num(100),
     product_name |-> Str(<<"W">>),
     product_description |-> Str(<<"d">>),
     product_stock |-> Num(1000),
     product_price |-> Str(<<"9", ".", "9", "9">>)]

Payloads ==
    {Undefined, Null, BasePayload, [BasePayload EXCEPT !.id = Num(9900)]}
    \cup {[BasePayload EXCEPT !.category_id = v] :
            v \in {Str(<<"2">>), Num(-100), Str(<<"a">>), Undefined}}
    \cup {[BasePayload EXCEPT !.product_name = v] :
            v \in {Str(<<"<", "b", ">">>), Str(<<>>), Undefined}}
    \cup {[BasePayload EXCEPT !.product_description = v] :
            v \in {Str(<<>>), Undefined}}
    \cup {[BasePayload EXCEPT !.product_stock = v] :
            v \in {Num(-100), Str(<<"x">>), Undefined}}
    \cup {[BasePayload EXCEPT !.product_price = v] :
            v \in {Num(500), Num(-100), Str(<<"a">>), Str(<<"$", "5">>),
                   Str(<<"9", ".", "9">>), Undefined}}

\* The row the table holds before the first request.
SeedRow ==
    [id |-> 1,
     category_id |-> Num(100),
     product_name |-> Str(<<"S">>),
     product_description |-> Str(<<"s">>),
     product_stock |-> Num(300),
     product_price |-> Num(250)]

\* ------------------------------------------------------ the response object
NewRes ==
    [statusCode |-> 200, headersSent |-> FALSE, status |-> 0,
     body |-> Undefined, sends |-> 0, lateSends |-> 0]

HeadersSent == "Cannot set headers after they are sent to the client"

\* res.status(code)
resStatus(res, code) == [res EXCEPT !.statusCode = code]

\* res.json(body) / res.send(body): writes the head and the body once; a call
\* on a response whose headers are already sent throws and writes nothing.
resSend(res, body) ==
    IF res.headersSent
    THEN [res |-> [res EXCEPT !.sends = @ + 1, !.lateSends = @ + 1],
          threw |-> HeadersSent]
    ELSE [res |-> [res EXCEPT !.headersSent = TRUE, !.status = res.statusCode,
                              !.body = body, !.sends = @ + 1],
          threw |-> ""]

\* ------------------------------------------------------------ request locals
NoQuery == [op |-> "none", arg |-> Undefined]

IdleReq ==
    [pc |-> "idle", route |-> "none", param |-> Undefined, res |-> NewRes,
     valRan |-> FALSE, valThrew |-> "", validatedId |-> 0,
     validatedProduct |-> Undefined,
     dataCalls |-> 0, dataFn |-> "none", dataArg |-> Undefined,
     query |-> NoQuery, ormCalls |-> 0, ormThrew |-> FALSE,
     ormResult |-> Undefined,
     dataReturned |-> FALSE, dataThrew |-> "", dataResult |-> Undefined,
     svcReturned |-> FALSE, svcThrew |-> "", svcResult |-> Undefined,
     caught |-> "", unhandled |-> FALSE]

\* ------------------------------------------------ dataAccess/productData.js
\* Each function runs to its await of the ORM call (the first operator) and,
\* when the call has settled, through its catch to its return (the second).
Data_getProducts(r) ==
    [r EXCEPT !.dataCalls = @ + 1, !.dataFn = "getProducts",
              !.dataArg = Undefined,
              !.query = [op |-> "findMany", arg |-> [t |-> "all"]],
              !.ormCalls = @ + 1]

\* Variant of getProducts whose catch rethrows.
Data_getProducts_rethrow(r) ==
    [r EXCEPT !.dataReturned = TRUE,
              !.dataThrew = IF r.ormThrew THEN "DB Error" ELSE "",
              !.dataResult = IF r.ormThrew THEN Undefined ELSE r.ormResult]

Data_getProducts_return(r) ==
    [r EXCEPT !.dataReturned = TRUE, !.dataThrew = "",
              !.dataResult = IF r.ormThrew THEN Undefined ELSE r.ormResult]

Data_getProductById(r, id) ==
    [r EXCEPT !.dataCalls = @ + 1, !.dataFn = "getProductById",
              !.dataArg = [t |-> "id", v |-> id],
              !.query = [op |-> "findUnique", arg |-> [t |-> "id", v |-> id]],
              !.ormCalls = @ + 1]

Data_getProductById_return(r) ==
    [r EXCEPT !.dataReturned = TRUE, !.dataThrew = "",
              !.dataResult = IF r.ormThrew THEN Undefined ELSE r.ormResult]

Data_getProductsByCatId(r, catId) ==
    [r EXCEPT !.dataCalls = @ + 1, !.dataFn = "getProductsByCatId",
              !.dataArg = [t |-> "id", v |-> catId],
              !.query = [op |-> "findMany",
                         arg |-> [t |-> "category_id", v |-> catId]],
              !.ormCalls = @ + 1]

Data_getProductsByCatId_return(r) ==
    [r EXCEPT !.dataReturned = TRUE, !.dataThrew = "",
              !.dataResult = IF r.ormThrew THEN Undefined ELSE r.ormResult]

\* Variant of createProduct that passes the product's id on to create.
Data_createProduct_withId(r, product) ==
    [r EXCEPT !.dataCalls = @ + 1, !.dataFn = "createProduct",
              !.dataArg = product,
              !.query = [op |-> "create",
                         arg |-> [t |-> "data",
                                  v |-> [id |-> Number(product.id),
                                         category_id |-> Number(product.category_id),
                                         product_name |-> product.product_name,
                                         product_description |-> product.product_description,
                                         product_stock |-> Number(product.product_stock),
                                         product_price |-> Number(product.product_price)]]],
              !.ormCalls = @ + 1]

\* createProduct(product): the data object names five fields and no id.
Data_createProduct(r, product) ==
    [r EXCEPT !.dataCalls = @ + 1, !.dataFn = "createProduct",
              !.dataArg = product,
              !.query = [op |-> "create",
                         arg |-> [t |-> "data",
                                  v |-> [category_id |-> Number(product.category_id),
                                         product_name |-> product.product_name,
                                         product_description |-> product.product_description,
                                         product_stock |-> Number(product.product_stock),
                                         product_price |-> Number(product.product_price)]]],
              !.ormCalls = @ + 1]

\* Variant of createProduct whose catch rethrows.
Data_createProduct_rethrow(r) ==
    [r EXCEPT !.dataReturned = TRUE,
              !.dataThrew = IF r.ormThrew THEN "DB Error" ELSE "",
              !.dataResult = IF r.ormThrew THEN Undefined ELSE r.ormResult]

Data_createProduct_return(r) ==
    [r EXCEPT !.dataReturned = TRUE, !.dataThrew = "",
              !.dataResult = IF r.ormThrew THEN Undefined ELSE r.ormResult]

DataReturn(r) ==
    CASE r.dataFn = "getProducts" -> Data_getProducts_return(r)
      [] r.dataFn = "getProductById" -> Data_getProductById_return(r)
      [] r.dataFn = "getProductsByCatId" -> Data_getProductsByCatId_return(r)
      [] r.dataFn = "createProduct" -> Data_createProduct_return(r)

\* ------------------------------------------------ services/productService.js
InvalidProductId == Text("Invalid product id")
InvalidProductData == Text("invalid product data")

Svc_getProducts(r) == Data_getProducts(r)

\* Variant of getProductById that calls data access whatever validateId says.
Svc_getProductById_noGate(r, id) ==
    LET validatedId == validateId(id)
        r1 == [r EXCEPT !.valRan = TRUE, !.validatedId = validatedId]
    IN Data_getProductById(r1, validatedId)

Svc_getProductById(r, id) ==
    LET validatedId == validateId(id)
        r1 == [r EXCEPT !.valRan = TRUE, !.validatedId = validatedId]
    IN IF validatedId # 0
       THEN Data_getProductById(r1, validatedId)
       ELSE [r1 EXCEPT !.svcReturned = TRUE, !.svcResult = InvalidProductId]

Svc_getProductsByCatId(r, id) ==
    LET validatedId == validateId(id)
        r1 == [r EXCEPT !.valRan = TRUE, !.validatedId = validatedId]
    IN IF validatedId # 0
       THEN Data_getProductsByCatId(r1, validatedId)
       ELSE [r1 EXCEPT !.svcReturned = TRUE, !.svcResult = InvalidProductId]

\* Variant of addNewProduct that hands the unvalidated form to createProduct.
Svc_addNewProduct_rawForm(r, productForm) ==
    LET v == validateNewProduct(productForm)
        r1 == [r EXCEPT !.valRan = TRUE, !.valThrew = v.threw,
                        !.validatedProduct = v.value]
    IN IF v.threw # ""
       THEN [r1 EXCEPT !.svcReturned = TRUE, !.svcThrew = v.threw]
       ELSE IF Truthy(v.value)
       THEN Data_createProduct(r1, productForm)
       ELSE [r1 EXCEPT !.svcReturned = TRUE, !.svcResult = InvalidProductData]

Svc_addNewProduct(r, productForm) ==
    LET v == validateNewProduct(productForm)
        r1 == [r EXCEPT !.valRan = TRUE, !.valThrew = v.threw,
                        !.validatedProduct = v.value]
    IN IF v.threw # ""
       THEN [r1 EXCEPT !.svcReturned = TRUE, !.svcThrew = v.threw]
       ELSE IF Truthy(v.value)
       THEN Data_createProduct(r1, v.value)
       ELSE [r1 EXCEPT !.svcReturned = TRUE, !.svcResult = InvalidProductData]

\* The service functions return what the data-access call returned; an
\* exception of the awaited call would pass through them.
SvcReturn(r) ==
    [r EXCEPT !.svcReturned = TRUE, !.svcThrew = r.dataThrew,
              !.svcResult = r.dataResult]

\* -------------------------------------------- controllers/productController.js
BadRequestBody == Text("{ content: error }")

\* catch (err) { res.status(500); res.send(err.message); }
Catch(r, msg) ==
    LET b == resSend(resStatus(r.res, 500), Text(msg))
    IN [r EXCEPT !.res = b.res, !.caught = msg, !.unhandled = (b.threw # ""),
                 !.pc = "done"]

\* Variant of the handlers' tail that answers a validation string with 400.
TryCatch_invalidAs400(r) ==
    IF r.svcThrew # "" THEN Catch(r, r.svcThrew)
    ELSE LET code == IF r.svcResult \in {InvalidProductId, InvalidProductData}
                     THEN 400 ELSE r.res.statusCode
             a == resSend(resStatus(r.res, code), r.svcResult)
         IN IF a.threw = ""
            THEN [r EXCEPT !.res = a.res, !.pc = "done"]
            ELSE Catch([r EXCEPT !.res = a.res], a.threw)

\* try { const result = await service...; res.json(result); } catch ...
\* (the same in every handler), from the point where the service call settled.
TryCatch(r) ==
    IF r.svcThrew # "" THEN Catch(r, r.svcThrew)
    ELSE LET a == resSend(r.res, r.svcResult)
         IN IF a.threw = ""
            THEN [r EXCEPT !.res = a.res, !.pc = "done"]
            ELSE Catch([r EXCEPT !.res = a.res], a.threw)

\* if (typeof x === "undefined") { res.status(400).json({ content: "error" }); }
\* with no return after it.
MissingParam(r, x) ==
    IF x.t = "undefined"
    THEN [r EXCEPT !.res = resSend(resStatus(r.res, 400), BadRequestBody).res]
    ELSE r

\* A handler runs until it awaits an ORM call, or to its end when none is made.
Started(r) ==
    IF r.query.op # "none" THEN [r EXCEPT !.pc = "query"] ELSE TryCatch(r)

\* router.get('/')
Ctl_getAll(r) == Started(Svc_getProducts(r))

\* router.get('/:id')
Ctl_getById(r, id) == Started(Svc_getProductById(r, id))

\* Variant of the bycat handler that returns after sending the 400.
Ctl_getByCat_returnAfter400(r, catId) ==
    IF catId.t = "undefined"
    THEN [MissingParam(r, catId) EXCEPT !.pc = "done"]
    ELSE Started(Svc_getProductsByCatId(r, catId))

\* router.get('/bycat/:catId')
Ctl_getByCat(r, catId) ==
    Started(Svc_getProductsByCatId(MissingParam(r, catId), catId))

\* router.post('/')
Ctl_post(r, newProduct) ==
    Started(Svc_addNewProduct(MissingParam(r, newProduct), newProduct))

Fresh(route, param) == [IdleReq EXCEPT !.route = route, !.param = param]

\* ----------------------------------------------------------------- actions
GetAll(s) ==
    /\ req[s].pc = "idle"
    /\ served < MaxRequests
    /\ served' = served + 1
    /\ req' = [req EXCEPT ![s] = Ctl_getAll(Fresh("GET /", Undefined))]
    /\ UNCHANGED <<store, lastId>>

GetById(s) ==
    /\ req[s].pc = "idle"
    /\ served < MaxRequests
    /\ served' = served + 1
    /\ \E id \in RawIds :
          req' = [req EXCEPT ![s] = Ctl_getById(Fresh("GET /:id", id), id)]
    /\ UNCHANGED <<store, lastId>>

\* The handler tests catId for undefined, so undefined is among its inputs.
GetByCat(s) ==
    /\ req[s].pc = "idle"
    /\ served < MaxRequests
    /\ served' = served + 1
    /\ \E catId \in RawIds \cup {Undefined} :
          req' = [req EXCEPT ![s] =
                    Ctl_getByCat(Fresh("GET /bycat/:catId", catId), catId)]
    /\ UNCHANGED <<store, lastId>>

\* req.body is undefined when no body was parsed, and null for a JSON null.
Post(s) ==
    /\ req[s].pc = "idle"
    /\ served < MaxRequests
    /\ served' = served + 1
    /\ \E body \in Payloads :
          req' = [req EXCEPT ![s] = Ctl_post(Fresh("POST /", body), body)]
    /\ UNCHANGED <<store, lastId>>

\* The ORM collaborator.  A query either settles with its result or throws.
Settle(s, result) ==
    req' = [req EXCEPT ![s].pc = "reply", ![s].ormThrew = FALSE,
                       ![s].ormResult = result]

Matches(row, arg) ==
    CASE arg.t = "all" -> TRUE
      [] arg.t = "category_id" -> row.category_id = Num(100 * arg.v)
      [] arg.t = "id" -> row.id = arg.v

FindMany(s) ==
    /\ req[s].pc = "query"
    /\ req[s].query.op = "findMany"
    /\ Settle(s, [t |-> "rows", v |-> {row \in store : Matches(row, req[s].query.arg)}])
    /\ UNCHANGED <<store, lastId, served>>

FindUnique(s) ==
    /\ req[s].pc = "query"
    /\ req[s].query.op = "findUnique"
    /\ LET found == {row \in store : Matches(row, req[s].query.arg)}
       IN Settle(s, IF found = {} THEN Null
                    ELSE [t |-> "row", v |-> CHOOSE row \in found : TRUE])
    /\ UNCHANGED <<store, lastId, served>>

\* create accepts only data of the columns' types: integers for category_id
\* and product_stock, a finite number for product_price, strings for the texts.
Storable(data) ==
    /\ data.category_id.t = "number" /\ data.category_id.c % 100 = 0
    /\ data.product_stock.t = "number" /\ data.product_stock.c % 100 = 0
    /\ data.product_price.t = "number"
    /\ data.product_name.t = "string"
    /\ data.product_description.t = "string"

NewRow(id, data) ==
    [id |-> IF "id" \in DOMAIN data THEN data.id.c \div 100 ELSE id,
     category_id |-> data.category_id,
     product_name |-> data.product_name,
     product_description |-> data.product_description,
     product_stock |-> data.product_stock,
     product_price |-> data.product_price]

Create(s) ==
    /\ req[s].pc = "query"
    /\ req[s].query.op = "create"
    /\ Storable(req[s].query.arg.v)
    /\ lastId < MaxId
    /\ LET row == NewRow(lastId + 1, req[s].query.arg.v)
       IN /\ store' = store \cup {row}
          /\ Settle(s, [t |-> "row", v |-> row])
    /\ lastId' = lastId + 1
    /\ UNCHANGED served

OrmThrow(s) ==
    /\ req[s].pc = "query"
    /\ req' = [req EXCEPT ![s].pc = "reply", ![s].ormThrew = TRUE]
    /\ UNCHANGED <<store, lastId, served>>

\* The awaited call has settled: data access, service and controller finish.
Resume(s) ==
    /\ req[s].pc = "reply"
    /\ req' = [req EXCEPT ![s] = TryCatch(SvcReturn(DataReturn(req[s])))]
    /\ UNCHANGED <<store, lastId, served>>

\* The handler has ended; the slot takes the next request.
Finish(s) ==
    /\ req[s].pc = "done"
    /\ req' = [req EXCEPT ![s] = IdleReq]
    /\ UNCHANGED <<store, lastId, served>>

Init ==
    /\ store = {SeedRow}
    /\ lastId = 1
    /\ req = [s \in Slots |-> IdleReq]
    /\ served = 0

Next ==
    \E s \in Slots :
        \/ GetAll(s)
        \/ GetById(s)
        \/ GetByCat(s)
        \/ Post(s)
        \/ FindMany(s)
        \/ FindUnique(s)
        \/ Create(s)
        \/ OrmThrow(s)
        \/ Resume(s)
        \/ Finish(s)

Spec == Init /\ [][Next]_vars

\* ==================================================================== claims
Done(s) == req[s].pc = "done"

IdRoutes == {"GET /:id", "GET /bycat/:catId"}

DataFnOf(route) ==
    IF route = "GET /:id" THEN "getProductById" ELSE "getProductsByCatId"

\* C1: in the service, getProductById and getProductsByCatId validate the id
\* first.  When validateId reports it invalid the function returns the string
\* "Invalid product id", throws nothing and makes no data-access call; when it
\* is valid the matching data-access function is called exactly once with the
\* normalized id, and its result is returned unchanged.
C1_ServiceGatesOnValidateId ==
    \A s \in Slots :
        LET r == req[s]
        IN (r.route \in IdRoutes /\ r.valRan) =>
              /\ r.validatedId = validateId(r.param)
              /\ r.validatedId = 0 =>
                    /\ r.svcReturned
                    /\ r.svcResult = InvalidProductId
                    /\ r.svcThrew = ""
                    /\ r.dataCalls = 0
                    /\ r.ormCalls = 0
              /\ r.validatedId # 0 =>
                    /\ r.dataCalls = 1
                    /\ r.dataFn = DataFnOf(r.route)
                    /\ r.dataArg = [t |-> "id", v |-> r.validatedId]
                    /\ r.svcReturned =>
                          /\ r.dataReturned
                          /\ r.svcResult = r.dataResult
                          /\ r.svcThrew = r.dataThrew

\* One finished request whose id was rejected beside one whose id was accepted
\* and whose data-access result came back.
C1_Witness ==
    \E s, u \in Slots :
        /\ Done(s) /\ req[s].route = "GET /:id" /\ req[s].validatedId = 0
        /\ req[s].valRan
        /\ Done(u) /\ req[u].route = "GET /bycat/:catId" /\ req[u].validatedId = 1
        /\ req[u].svcResult = [t |-> "rows", v |-> {SeedRow}]

C3_DataAccessSwallows ==
    \A s \in Slots :
        LET r == req[s]
        IN (r.ormThrew /\ r.dataReturned) =>
              /\ r.dataResult = Undefined
              /\ r.dataThrew = ""
              /\ r.svcThrew = ""
              /\ r.caught = ""
              /\ ~r.unhandled

\* A failed create and a failed read, both returned from data access.
C3_Witness ==
    \E s, u \in Slots :
        /\ Done(s) /\ req[s].ormThrew /\ req[s].dataFn = "createProduct"
        /\ Done(u) /\ req[u].ormThrew /\ req[u].dataFn # "createProduct"

\* C4 as stated: GET / answers 500 with the error's message when the ORM call
\* throws, and otherwise 200 with the array of products.
C4_Original ==
    \A s \in Slots :
        LET r == req[s]
        IN (Done(s) /\ r.route = "GET /") =>
              IF r.ormThrew
              THEN r.res.status = 500 /\ r.res.body.t = "text"
              ELSE r.res.status = 200 /\ r.res.body.t = "rows"

\* C4 amended: GET / always answers 200: with an empty (undefined) body when
\* the ORM call threw, the exception having been swallowed by data access,
\* and otherwise with the array of products the query returned.
C4_GetAllAlways200 ==
    \A s \in Slots :
        LET r == req[s]
        IN (Done(s) /\ r.route = "GET /") =>
              /\ r.res.status = 200
              /\ r.res.sends = 1
              /\ r.caught = ""
              /\ r.ormThrew => r.res.body = Undefined
              /\ ~r.ormThrew =>
                    /\ r.res.body.t = "rows"
                    /\ r.res.body = r.ormResult
                    /\ r.res.body.v \subseteq store

\* GET / has been answered after its query threw.
C4_Witness ==
    \E s \in Slots :
        /\ Done(s) /\ req[s].route = "GET /" /\ req[s].ormThrew
        /\ req[s].res.status = 200

MissingCatId(s) ==
    /\ Done(s)
    /\ req[s].route = "GET /bycat/:catId"
    /\ req[s].param = Undefined

\* C5 as stated: with catId undefined the handler sets the 400 response, goes
\* on into the try block, calls the service, and the storage query is issued.
C5_Original ==
    \A s \in Slots :
        MissingCatId(s) =>
            /\ req[s].res.status = 400
            /\ req[s].valRan
            /\ req[s].ormCalls >= 1

\* C5 amended: with catId undefined the handler sends the 400 response and
\* goes on into the try block, where the service getProductsByCatId is
\* called; validateId rejects the undefined id, so the service returns
\* "Invalid product id" and no data-access call or storage query is made.
C5_ContinuesButNoQuery ==
    \A s \in Slots :
        MissingCatId(s) =>
            /\ req[s].res.status = 400
            /\ req[s].res.body = BadRequestBody
            /\ req[s].valRan
            /\ req[s].svcReturned
            /\ req[s].svcResult = InvalidProductId
            /\ req[s].dataCalls = 0
            /\ req[s].ormCalls = 0

\* A GET /bycat/ request without catId has run to its end.
C5_Witness ==
    \E s \in Slots : MissingCatId(s) /\ req[s].res.headersSent /\ req[s].valRan

\* A well-formed new product, in the terms of the data model: an object with
\* non-negative numeric category_id and product_stock, non-empty texts and a
\* non-negative currency-formatted product_price.
WellFormed(p) ==
    /\ p.t = "object"
    /\ isNumeric(ToStr(p.category_id))
    /\ p.product_name.t = "string" /\ p.product_name.s # <<>>
    /\ p.product_description.t = "string" /\ p.product_description.s # <<>>
    /\ isNumeric(ToStr(p.product_stock))
    /\ isCurrency(ToStr(p.product_price))

\* C6: validateNewProduct returns undefined and throws nothing for every
\* payload that is not a well-formed new product (a null payload and absent
\* texts included), and returns a Product with id 0 for every well-formed one.
C6_ValidatorNeverThrows ==
    \A s \in Slots :
        LET r == req[s]
        IN (r.route = "POST /" /\ r.valRan) =>
              IF WellFormed(r.param)
              THEN /\ r.valThrew = ""
                   /\ r.validatedProduct.t = "object"
                   /\ r.validatedProduct.id = Num(0)
              ELSE /\ r.valThrew = ""
                   /\ r.validatedProduct = Undefined

\* What addNewProduct has done, by the outcome of validateNewProduct.
C7_State ==
    \A s \in Slots :
        LET r == req[s]
        IN (r.route = "POST /" /\ r.valRan /\ r.valThrew = "") =>
              /\ ~Truthy(r.validatedProduct) =>
                    /\ r.svcReturned
                    /\ r.svcResult = InvalidProductData
                    /\ r.dataCalls = 0
                    /\ r.ormCalls = 0
              /\ Truthy(r.validatedProduct) =>
                    /\ r.dataCalls = 1
                    /\ r.dataFn = "createProduct"
                    /\ r.dataArg = r.validatedProduct
                    /\ r.svcReturned =>
                          /\ r.svcResult = r.dataResult
                          /\ r.svcThrew = ""

\* The step in which a POST is refused by validation writes nothing.
C7_Step ==
    \A s \in Slots :
        LET r == req'[s]
        IN (/\ req[s].pc = "idle" /\ r.route = "POST /"
            /\ r.valThrew = "" /\ ~Truthy(r.validatedProduct)) =>
              /\ store' = store
              /\ r.pc = "done"

\* C7: addNewProduct validates before writing.  When validateNewProduct
\* returns no product it returns "invalid product data", createProduct is not
\* called and the table is unchanged; when validation succeeds createProduct
\* is called exactly once with the validated product and its result returned.
C7_AddNewProductGates == [](C7_State) /\ [][C7_Step]_vars

\* One POST refused by validation beside one whose row was created.
C7_Witness ==
    \E s, u \in Slots :
        /\ Done(s) /\ req[s].route = "POST /" /\ req[s].valRan
        /\ req[s].valThrew = "" /\ req[s].svcResult = InvalidProductData
        /\ Done(u) /\ req[u].route = "POST /" /\ ~req[u].ormThrew
        /\ req[u].svcResult.t = "row"

ValidPost(s) ==
    /\ req[s].route = "POST /"
    /\ WellFormed(req[s].param)

\* What a create call is given and what a valid POST is answered with.
C8_State ==
    \A s \in Slots :
        LET r == req[s]
        IN /\ (r.query.op = "create") =>
                 DOMAIN r.query.arg.v =
                    {"category_id", "product_name", "product_description",
                     "product_stock", "product_price"}
           /\ (Done(s) /\ ValidPost(s) /\ ~r.ormThrew) =>
                 /\ r.res.status = 200
                 /\ r.res.sends = 1
                 /\ r.res.body.t = "row"
                 /\ r.res.body.v \in store
                 /\ r.res.body.v.id \in 1..lastId
                 /\ r.res.body.v.category_id = r.validatedProduct.category_id
                 /\ r.res.body.v.product_name = r.validatedProduct.product_name
                 /\ r.res.body.v.product_description = r.validatedProduct.product_description
                 /\ r.res.body.v.product_stock = r.validatedProduct.product_stock
                 /\ r.res.body.v.product_price = r.validatedProduct.product_price
                 /\ r.validatedProduct.product_name = Str(escape(r.param.product_name.s))

\* A successful create takes the row's id from the table's sequence, whatever
\* the request carried.
C8_Step ==
    \A s \in Slots :
        (/\ req[s].pc = "query" /\ req[s].query.op = "create"
         /\ req'[s].pc = "reply" /\ ~req'[s].ormThrew) =>
            /\ req'[s].ormResult.t = "row"
            /\ req'[s].ormResult.v.id = lastId + 1
            /\ lastId' = lastId + 1
            /\ store' = store \cup {req'[s].ormResult.v}

\* C8: a POST / with a valid payload and no storage failure is answered 200
\* with the stored product, whose id is a positive integer assigned by
\* storage; no id of the client's payload reaches the create call, so the
\* stored id does not depend on it, and the other stored fields equal the
\* validated payload's fields.
C8_CreateAssignsId == [](C8_State) /\ [][C8_Step]_vars

\* A POST that carried an id of its own has been stored and answered.
C8_Witness ==
    \E s \in Slots :
        /\ Done(s) /\ ValidPost(s) /\ ~req[s].ormThrew
        /\ req[s].param.id = Num(9900)
        /\ req[s].res.body.t = "row"
        /\ req[s].res.body.v.id = 2

NonNegInteger(v) == v.t = "number" /\ v.c >= 0 /\ v.c % 100 = 0

\* The shape of every stored row.
C9_State ==
    /\ \A row \in store :
          /\ row.id > 0
          /\ NonNegInteger(row.category_id)
          /\ NonNegInteger(row.product_stock)
          /\ row.product_price.t = "number" /\ row.product_price.c >= 0
    /\ \A r1, r2 \in store : r1.id = r2.id => r1 = r2

\* What one step may do to the table.
C9_Step ==
    /\ store \subseteq store'
    /\ store' # store =>
          /\ Cardinality(store') = Cardinality(store) + 1
          /\ \E s \in Slots :
                /\ req[s].route = "POST /"
                /\ req[s].pc = "query"
                /\ req[s].query.op = "create"
                /\ req'[s].pc = "reply"
                /\ ~req'[s].ormThrew
    /\ (\E s \in Slots : req'[s] # req[s] /\ req'[s].route \in IdRoutes \cup {"GET /"}) =>
          store' = store

\* C9: under every interleaving of the four kinds of request, every stored
\* product has a positive id unique in the table, non-negative integer
\* category_id and product_stock and a non-negative product_price; the three
\* GET operations leave the table unchanged, and no step changes or removes a
\* stored row: the table only grows, by one row per successful create.
C9_StoreInvariant == [](C9_State) /\ [][C9_Step]_vars

\* A row has been created while another request was in flight, and a GET has
\* been answered.
C9_Witness ==
    \E s, u \in Slots :
        /\ Cardinality(store) = 2
        /\ Done(s) /\ req[s].route = "POST /" /\ req[s].svcResult.t = "row"
        /\ Done(u) /\ req[u].route = "GET /" /\ ~req[u].ormThrew

\* C10: every handler sends exactly one response: res.json / res.send is
\* never invoked again once a response body has been sent.
C10_ExactlyOneSend ==
    \A s \in Slots :
        /\ req[s].res.lateSends = 0
        /\ Done(s) => req[s].res.sends = 1

==========================================================================
